---- MODULE Spec2Model ----
(***************************************************************************)
(* Metrics-aggregation hook (useDataProcessor) of the globalization        *)
(* dashboards.  Four copies of the hook exist in the repository:           *)
(*   "GP"  src/scripts/GlobalPulse_Analytics_Pro.jsx:139-232               *)
(*   "P1"  src/unnamed/part_001:261-323                                    *)
(*   "P2"  src/unnamed/part_001:820-862                                    *)
(*   "GD"  src/scripts/GlobalizationDashboard.jsx:142-237                  *)
(* The variable `variant` selects the copy; every operator below that      *)
(* differs between the copies takes the variant as its first argument.     *)
(*                                                                         *)
(* Scores are fixed-point integers in units of 1/Scale.                    *)
(*                                                                         *)
(* Spec         the hook driven by the generated data and the filter       *)
(* SpecUnclean  the hook fed with commit lists that need not be clean      *)
(* SpecInsight  the app with its insight panel (generateInsight)           *)
(* SpecTasks    the task managers (task.jsx, TaskList.vue, Task.react)     *)
(* SpecProduct  a Product with its discount (src/unnamed/part_000)         *)
(* SpecLoader   the DataLoader component (src/DataLoader.vue)              *)
(***************************************************************************)
EXTENDS Integers, Sequences, FiniteSets, TLC

VARIABLES variant, commits, regionFilter, effectPending, pc, idx,
          hourlyCounts, heatmapGrid, countryCounts, contributorStats, result,
          selectedProject, apiKey, insightText, insightLoading, inflight,
          loading, timers,
          impl, tasks, filteredTasks, editingTask, searchText, selectedPriority,
          price, discount, originalPrice, applied, productPc,
          isLoading, errorMessage, loadPc, started, emitted, lastLoad

vars == <<variant, commits, regionFilter, effectPending, pc, idx,
          hourlyCounts, heatmapGrid, countryCounts, contributorStats, result,
          selectedProject, apiKey, insightText, insightLoading, inflight,
          loading, timers,
          impl, tasks, filteredTasks, editingTask, searchText, selectedPriority,
          price, discount, originalPrice, applied, productPc,
          isLoading, errorMessage, loadPc, started, emitted, lastLoad>>

(* ------------------------------ bounds --------------------------------- *)

\* longest exhaustively enumerated commit list
MaxEvents == 2

\* most loads started by one DataLoader
MaxLoads == 4

\* most applyDiscount calls made on one product
MaxDiscounts == 3

\* longest task list of the task manager
MaxTasks == 3

\* largest n for which the top-n collapse is checked besides the code's 5
MaxN == 6

\* largest number of distinct countries for which the diversity score is
\* checked as a function of that number
MaxCountries == 12

\* largest number of insight requests in flight at a time
MaxInflight == 2

(* --------------------------- program constants ------------------------- *)

Variants == {"GP", "P1", "P2", "GD"}

\* the options of the project selector
Projects == {"Project-A", "Project-B"}

\* attempts of one insight request in GD
MAX_RETRIES == 3

\* slice(0, 5) / slice(5) of countryData
TopCountries == 5

\* null, the initial value of the region filter state
NullFilter == "null"

\* the hook's null return value (GP, empty commit list)
NULL == [null |-> TRUE]

Hours == 0..23
Days == 0..6

\* one score unit is 1/Scale; Scale is a multiple of 24 and of 100
Scale == 24 * 100000

Hundredth == Scale \div 100

(* ------------------------------ helpers -------------------------------- *)

Min(a, b) == IF a < b THEN a ELSE b

RECURSIVE SumSeq(_)
SumSeq(s) == IF s = <<>> THEN 0 ELSE Head(s) + SumSeq(Tail(s))

\* Array.prototype.filter
Filter(s, P(_)) ==
  LET F[i \in 0..Len(s)] ==
        IF i = 0 THEN <<>>
        ELSE IF P(s[i]) THEN Append(F[i - 1], s[i]) ELSE F[i - 1]
  IN  F[Len(s)]

\* Array.prototype.slice(from) / slice(0, n), 0-based arguments as in the code
SliceTo(s, n) == SubSeq(s, 1, Min(n, Len(s)))
SliceFrom(s, n) == SubSeq(s, n + 1, Len(s))

\* Array.prototype.sort with a numeric comparator a.k - b.k: stable (ES2019),
\* ascending by Key; an element's place is the number of elements that
\* precede it in key order, or that are equal and precede it in the input
StableSort(s, Key(_)) ==
  LET Before(j, i) == \/ Key(s[j]) < Key(s[i])
                      \/ Key(s[j]) = Key(s[i]) /\ j < i
      Place(i) == Cardinality({j \in 1..Len(s) : Before(j, i)}) + 1
  IN  [p \in 1..Len(s) |-> s[CHOOSE i \in 1..Len(s) : Place(i) = p]]

\* new Date(ts * 1000).getUTCHours() / getUTCDay(); 1970-01-01 was a Thursday
UtcHour(ts) == (ts \div 3600) % 24
UtcDay(ts) == ((ts \div 86400) + 4) % 7

(* ----------------------- the event source ------------------------------ *)

\* baseTime of the fixed mock data set
BaseTime == 1732278000

\* values the enumerated commit lists are drawn from; every one of them is
\* a value the generators produce for "Project-B"
Timestamps == {BaseTime, BaseTime - 86400}
Countries == {"USA", "GBR"}
Names == {"Dev-7"}
ContributorIds(v) == IF v = "GD" THEN {"b1", "b0"} ELSE {"u1", "u0"}

EventSet(v) ==
  [timestamp_unix : Timestamps, location_iso3 : Countries,
   contributor_id : ContributorIds(v), contributor_name : Names]

RawLists(v) == UNION {[1..n -> EventSet(v)] : n \in 0..MaxEvents}

\* "Project-A" country pool of the generator for a commit made at `hour`
LocationPool(v, hour) ==
  CASE v = "GP" ->
         IF hour >= 1 /\ hour <= 9 THEN <<"CHN", "IND", "JPN", "AUS">>
         ELSE IF hour >= 9 /\ hour <= 17 THEN <<"DEU", "GBR", "FRA", "USA">>
         ELSE <<"USA", "CAN", "BRA">>
    [] v = "P1" ->
         IF hour >= 2 /\ hour <= 10 THEN <<"CHN", "IND", "JPN", "AUS">>
         ELSE IF hour >= 10 /\ hour <= 18 THEN <<"DEU", "GBR", "FRA", "NLD">>
         ELSE <<"USA", "CHN", "DEU", "IND", "JPN">>
    [] v = "P2" ->
         IF hour >= 1 /\ hour <= 9 THEN <<"CHN", "IND", "JPN", "AUS">>
         ELSE IF hour >= 9 /\ hour <= 17 THEN <<"DEU", "GBR", "FRA">>
         ELSE <<"USA", "CHN", "DEU", "IND", "JPN">>
    [] v = "GD" ->
         <<(<<"USA", "CHN", "DEU", "IND", "JPN",
              "GBR", "BRA", "AUS", "CAN", "FRA">>)[(hour % 10) + 1]>>

\* contributors kept in the ranking: slice(0, 10) / slice(0, 20) / slice(0, 8)
TopK(v) == CASE v = "GP" -> 10 [] v = "P1" -> 20 [] v = "P2" -> 10 [] v = "GD" -> 8

\* A long "Project-A" commit list of m commits by k contributors: commit i
\* is made 5 hours after commit i-1, in a country of the pool of its hour;
\* the first k commits are by k different contributors u0 .. u(k-1), the
\* remaining ones by u(k-1), u(k-2), .. again.
FixtureCommit(v, k, i) ==
  LET ts == (BaseTime - 20 * 86400) + 18000 * i
      pool == LocationPool(v, UtcHour(ts))
  IN  [timestamp_unix |-> ts,
       location_iso3 |-> pool[(i % Len(pool)) + 1],
       contributor_id |-> "u" \o ToString(IF i <= k THEN i - 1 ELSE k - 1 - ((i - k - 1) % k)),
       contributor_name |-> "Dev-" \o ToString(i)]

Fixture(v, m, k) == [i \in 1..m |-> FixtureCommit(v, k, i)]

\* 24 commits of one contributor in one country, one in every hour of a day
OnePerHour(v) ==
  [i \in 1..24 |->
     [timestamp_unix |-> BaseTime + 3600 * i, location_iso3 |-> "USA",
      contributor_id |-> IF v = "GD" THEN "b0" ELSE "u0",
      contributor_name |-> "Dev-7"]]

FixtureLists(v) ==
  {Fixture(v, TopK(v) + 3, TopK(v) + 1), Fixture(v, TopK(v) + 2, TopK(v)),
   OnePerHour(v)}
    \cup {Fixture(v, m, 3) : m \in {6, 7, 8, 9, 24}}

\* generateMockData: GP, P1 and P2 sort the generated commits by timestamp;
\* the fixed mock data of GD is kept in generation order
generateMockData(v, raw) ==
  IF v = "GD" THEN raw
  ELSE LET ts(c) == c.timestamp_unix IN StableSort(raw, ts)

CommitLists(v) == {generateMockData(v, raw) : raw \in RawLists(v) \cup FixtureLists(v)}

\* the commit lists of a project: the long lists are "Project-A" data, the
\* enumerated lists and the one-country list "Project-B" data
CommitListsOf(v, project) ==
  IF project = "Project-A"
    THEN {cm \in CommitLists(v) : Len(cm) > MaxEvents /\ cm # OnePerHour(v)}
    ELSE {cm \in CommitLists(v) : Len(cm) <= MaxEvents \/ cm = OnePerHour(v)}

\* Commit lists as a data source other than the generators may deliver them
\* (the generated data stands in for cleaned API data): a timestamp may be
\* negative or absent, a country code empty, a contributor id null.

\* stands for an absent timestamp_unix (undefined, NaN once multiplied); no
\* commit has it as a real timestamp
MissingTimestamp == 0 - 1

\* a timestamp before 1970
NegativeTimestamp == 0 - BaseTime

\* a null contributor_id, by the property key it is coerced to
NullId == "null"

UncleanEvents ==
  [timestamp_unix : {BaseTime, NegativeTimestamp, MissingTimestamp},
   location_iso3 : {"USA", ""},
   contributor_id : {"u0", NullId}, contributor_name : Names]

UncleanLists == UNION {[1..n -> UncleanEvents] : n \in 0..MaxEvents}

(* --------------------------- the aggregator ---------------------------- *)

\* Array(24).fill(0), Array(7).fill(..).map(() => Array(24).fill(0)), {}, {}
EmptyHourly == [h \in Hours |-> 0]
EmptyHeatmap == [d \in Days |-> [h \in Hours |-> 0]]

\* Objects keyed by strings are kept as sequences in insertion order, the
\* order of Object.entries / Object.values / Object.keys (no key here is an
\* integer index)
HasKey(obj, key, KeyOf(_)) == \E j \in 1..Len(obj) : KeyOf(obj[j]) = key
IndexOfKey(obj, key, KeyOf(_)) == CHOOSE j \in 1..Len(obj) : KeyOf(obj[j]) = key

CountryKey(e) == e.name

\* the bucket assigned instead of incremented
CountHourAssign(hourly, utcHour) == [hourly EXCEPT ![utcHour] = 1]

\* hourlyCounts[utcHour]++
CountHour(hourly, utcHour) == [hourly EXCEPT ![utcHour] = @ + 1]

\* the grid built as Array(7).fill(Array(24).fill(0)): one row shared by all
\* seven weekdays, so that the increment shows in every row
CountHeatSharedRow(heatmap, day, utcHour) ==
  [d \in Days |-> [heatmap[d] EXCEPT ![utcHour] = @ + 1]]

\* heatmapGrid[day][utcHour]++
CountHeat(heatmap, day, utcHour) == [heatmap EXCEPT ![day][utcHour] = @ + 1]

\* an entry added for every commit, without the lookup of the country
CountCountryAppend(cc, loc) == Append(cc, [name |-> loc, value |-> 1])

\* countryCounts[loc] = (countryCounts[loc] || 0) + 1
CountCountry(cc, loc) ==
  IF HasKey(cc, loc, CountryKey)
    THEN LET j == IndexOfKey(cc, loc, CountryKey)
         IN  [cc EXCEPT ![j].value = @ + 1]
    ELSE Append(cc, [name |-> loc, value |-> 1])

\* key and recorded country of a contributor entry
ContributorKey(v, u) == IF v \in {"GP", "GD"} THEN u.id ELSE u.contributor_id
ContributorLocation(v, u) == IF v \in {"GP", "GD"} THEN u.location ELSE u.location_iso3

\* the entry created for a contributor's first commit, count still 0
NewContributor(v, c) ==
  CASE v = "GP" -> [id |-> c.contributor_id, name |-> c.contributor_name,
                    count |-> 0, location |-> c.location_iso3]
    [] v = "GD" -> [id |-> c.contributor_id,
                    name |-> IF c.contributor_name = "" THEN c.contributor_id
                             ELSE c.contributor_name,
                    count |-> 0, location |-> c.location_iso3]
    [] OTHER -> [timestamp_unix |-> c.timestamp_unix,
                 location_iso3 |-> c.location_iso3,
                 contributor_id |-> c.contributor_id,
                 contributor_name |-> c.contributor_name,
                 count |-> 0]

\* the country overwritten by every commit of the contributor
CountContributorLastSeen(v, cs, c) ==
  LET Key(u) == ContributorKey(v, u)
      cs1 == IF HasKey(cs, c.contributor_id, Key) THEN cs
             ELSE Append(cs, NewContributor(v, c))
      j == IndexOfKey(cs1, c.contributor_id, Key)
  IN  IF v \in {"GP", "GD"}
        THEN [cs1 EXCEPT ![j].count = @ + 1, ![j].location = c.location_iso3]
        ELSE [cs1 EXCEPT ![j].count = @ + 1, ![j].location_iso3 = c.location_iso3]

\* count++ placed in an else branch: the first commit of a contributor
\* is not counted
CountContributorElse(v, cs, c) ==
  LET Key(u) == ContributorKey(v, u)
  IN  IF HasKey(cs, c.contributor_id, Key)
        THEN [cs EXCEPT ![IndexOfKey(cs, c.contributor_id, Key)].count = @ + 1]
        ELSE Append(cs, NewContributor(v, c))

\* if (!stats[id]) stats[id] = {...}; stats[id].count++
CountContributor(v, cs, c) ==
  LET Key(u) == ContributorKey(v, u)
      cs1 == IF HasKey(cs, c.contributor_id, Key) THEN cs
             ELSE Append(cs, NewContributor(v, c))
      j == IndexOfKey(cs1, c.contributor_id, Key)
  IN  [cs1 EXCEPT ![j].count = @ + 1]

\* the contributor entry being the commit object itself (users[id] = c
\* without the spread): count = 0 and count++ then write into the first
\* commit of the contributor
EventsAfterAliased(v, cm, i) ==
  LET first == CHOOSE j \in 1..i :
                 /\ cm[j].contributor_id = cm[i].contributor_id
                 /\ \A k \in 1..(j - 1) : cm[k].contributor_id # cm[i].contributor_id
      c == cm[first]
      n == IF "count" \in DOMAIN c /\ first # i THEN c.count + 1 ELSE 1
  IN  [cm EXCEPT ![first] =
         [f \in DOMAIN c \cup {"count"} |-> IF f = "count" THEN n ELSE c[f]]]

\* the commit objects after the iteration for commit i: the iteration only
\* reads c, and the contributor entry it writes to is a new object (GP, GD)
\* or a copy { ...c, count: 0 } (P1, P2)
EventsAfter(v, cm, i) == cm

(* ------------------------ formatting and top-n ------------------------- *)

\* hour.toString().padStart(2, '0')
HourLabel(h) == IF h < 10 THEN "0" \o ToString(h) ELSE ToString(h)

\* hourlyCounts.map((count, hour) => ({hour, commits: count}))
HriData(hourly) == [p \in 1..24 |-> [hour |-> HourLabel(p - 1), commits |-> hourly[p - 1]]]

\* sorted ascending and then reversed: equal counts end up in the reverse of
\* their insertion order
CountryDataReversed(cc) ==
  LET Pos(e) == e.value
      asc == StableSort(cc, Pos)
  IN  [p \in 1..Len(asc) |-> asc[Len(asc) + 1 - p]]

\* Object.entries(countryCounts).sort(([, a], [, b]) => b - a).map(...)
CountryData(cc) == LET Neg(e) == 0 - e.value IN StableSort(cc, Neg)

\* name of the synthetic remainder sector; GD names it in Chinese
\* ("other regions"), written here in pinyin
OtherName(v) ==
  CASE v = "GP" -> "Others" [] v = "P1" -> "Other" [] v = "P2" -> "Others"
    [] v = "GD" -> "Qita diqu"

\* the remainder taken from one entry too far: slice(n + 1)
PieDataNSkipOne(v, countryData, n) ==
  LET top == SliceTo(countryData, n)
      rest == SliceFrom(countryData, n + 1)
      other == SumSeq([j \in 1..Len(rest) |-> rest[j].value])
      synth == <<[name |-> OtherName(v), value |-> other]>>
  IN  top \o (IF other > 0 THEN synth ELSE <<>>)

\* the synthetic entry appended without a condition
PieDataNAlways(v, countryData, n) ==
  LET top == SliceTo(countryData, n)
      rest == SliceFrom(countryData, n)
      other == SumSeq([j \in 1..Len(rest) |-> rest[j].value])
  IN  top \o <<[name |-> OtherName(v), value |-> other]>>

\* pieData with the code's slice bound 5 replaced by n:
\*   GP      [...top, ...(other > 0 ? [{name, value: other}] : [])]
\*   P1, P2  [...top, ...(countryData.length > n ? [{name, value: other}] : [])]
\*   GD      as GP, then .filter(d => d.value > 0)
PieDataN(v, countryData, n) ==
  LET top == SliceTo(countryData, n)
      rest == SliceFrom(countryData, n)
      other == SumSeq([j \in 1..Len(rest) |-> rest[j].value])
      synth == <<[name |-> OtherName(v), value |-> other]>>
      Positive(d) == d.value > 0
  IN  CASE v = "GP" -> top \o (IF other > 0 THEN synth ELSE <<>>)
        [] v \in {"P1", "P2"} -> top \o (IF Len(countryData) > n THEN synth ELSE <<>>)
        [] v = "GD" -> Filter(top \o (IF other > 0 THEN synth ELSE <<>>), Positive)

PieData(v, countryData) == PieDataN(v, countryData, TopCountries)

(* ------------------------- contributor ranking ------------------------- *)

\* if (regionFilter): null and the empty string are falsy
Truthy(f) == f # NullFilter /\ f # ""

\* the filter not applied
FilterContributorsNone(v, cs, filter) == cs

\* the full list shown when no contributor matches the filter
FilterContributorsOrAll(v, cs, filter) ==
  LET Match(u) == ContributorLocation(v, u) = filter
  IN  IF v # "GD" /\ Truthy(filter) /\ Filter(cs, Match) # <<>>
        THEN Filter(cs, Match) ELSE cs

\* Object.values(stats), filtered by the recorded country when a filter is
\* set (GD has no filter)
FilterContributors(v, cs, filter) ==
  LET Match(u) == ContributorLocation(v, u) = filter
  IN  IF v # "GD" /\ Truthy(filter) THEN Filter(cs, Match) ELSE cs

\* the comparator reversed: a.count - b.count
SortContributorsAscending(cs) == LET Pos(u) == u.count IN StableSort(cs, Pos)

\* .sort((a, b) => b.count - a.count)
SortContributors(cs) == LET Neg(u) == 0 - u.count IN StableSort(cs, Neg)

\* truncated before sorting
RankSliceBeforeSort(v, cs, filter) ==
  LET Neg(u) == 0 - u.count
  IN  StableSort(SliceTo(FilterContributors(v, cs, filter), TopK(v)), Neg)

\* .sort(...).slice(0, topK)
RankContributors(v, cs, filter) ==
  SliceTo(SortContributors(FilterContributors(v, cs, filter)), TopK(v))

(* ------------------------------ scores --------------------------------- *)

\* the comparison written as >= 0: every bucket counts as active
ActiveHoursAll(hourly) == Cardinality({h \in Hours : hourly[h] >= 0})

\* number of hour buckets with commits > 0
ActiveHours(hourly) == Cardinality({h \in Hours : hourly[h] > 0})

\* (x / 24).toFixed(2) in hundredths, and (x / 24 * 100).toFixed(0) /
\* Math.round(x / 24 * 100): the ties 3/24, 9/24, 15/24, 21/24 are exact
\* binary fractions and round up
RoundPer24(x) == (200 * x + 24) \div 48

\* Math.min(1, Math.log(k) / Math.log(8)), k >= 1, in score units
LogRatio8(k) ==
  IF k >= 8 THEN Scale
  ELSE (<<0, 800000, 1267970, 1600000, 1857542, 2067970, 2245884>>)[k]

\* the same .toFixed(2), in hundredths
LogRatio8Hundredths(k) ==
  IF k >= 8 THEN 100 ELSE (<<0, 33, 53, 67, 77, 86, 94>>)[k]

\* Math.min(1, Math.log(k) / Math.log(10)) * 0.9, k >= 1, in units of 1e-5
LogRatio10x90(k) ==
  IF k >= 10 THEN 90000
  ELSE (<<0, 27093, 42941, 54185, 62907, 70034, 76059, 81278, 85882>>)[k]

\* pairs <<hriScore, diversityScore>> (hundredths) with an odd sum for which
\* the double hriScore * 0.5 + diversityScore * 0.5 lies below the decimal
\* midpoint, so that toFixed(2) rounds down
HalfRoundsDown ==
  {<<4, 33>>, <<8, 53>>, <<8, 77>>, <<13, 86>>, <<13, 94>>, <<13, 100>>,
   <<17, 94>>, <<17, 100>>, <<21, 0>>, <<21, 94>>, <<21, 100>>, <<25, 86>>,
   <<25, 94>>, <<29, 0>>, <<29, 86>>, <<29, 94>>, <<33, 86>>, <<38, 33>>,
   <<38, 77>>, <<42, 53>>, <<42, 77>>, <<46, 53>>, <<46, 77>>, <<50, 67>>,
   <<54, 67>>, <<58, 33>>, <<58, 53>>, <<63, 86>>, <<63, 94>>, <<63, 100>>,
   <<67, 94>>, <<67, 100>>, <<71, 0>>, <<71, 86>>, <<71, 94>>, <<71, 100>>,
   <<75, 86>>, <<75, 94>>, <<79, 86>>, <<79, 94>>, <<83, 0>>, <<83, 86>>,
   <<88, 33>>, <<88, 77>>, <<92, 77>>, <<96, 53>>, <<96, 67>>, <<96, 77>>,
   <<100, 67>>}

\* values of Math.random(), in thousandths; none of them puts openRank or
\* the GD diversity score on a rounding tie
RandomDraws == {5, 505}

\* diversityScore, in score units
DiversityScore(v, k, rnd) ==
  IF k = 0 THEN 0
  ELSE CASE v = "GP" -> LogRatio8Hundredths(k) * Hundredth
         [] v \in {"P1", "P2"} -> LogRatio8(k)
         [] v = "GD" -> ((LogRatio10x90(k) + 10 * rnd + 500) \div 1000) * Hundredth

\* hriScore, in score units: GP and GD round it to two decimals
HriScore(v, hourly) ==
  IF v \in {"P1", "P2"} THEN ActiveHours(hourly) * (Scale \div 24)
  ELSE RoundPer24(ActiveHours(hourly)) * Hundredth

\* globalScore, in score units
GlobalScore(v, hri, div) ==
  LET h == hri \div Hundredth
      d == div \div Hundredth
  IN  CASE v = "GP" ->
             (IF <<h, d>> \in HalfRoundsDown THEN (h + d) \div 2
              ELSE (h + d + 1) \div 2) * Hundredth
        [] v \in {"P1", "P2"} -> (hri + div) \div 2
        [] v = "GD" -> ((60 * h + 40 * d + 50) \div 100) * Hundredth

\* openRank (GP, GD), in score units
OpenRank(v, global, rnd) ==
  LET g == global \div Hundredth
  IN  IF v = "GP" THEN ((15000 + 5 * rnd + 100 * g + 50) \div 100) * Hundredth
      ELSE ((5 * rnd + 150 * g + 50) \div 100) * Hundredth

(* ---------------------------- the result ------------------------------- *)

\* new Set(commits.map(c => c.contributor_id)).size
DistinctContributors(cm) == Cardinality({cm[j].contributor_id : j \in 1..Len(cm)})

\* countryData.slice(0, 5).map(c => `${c.name} (${c.value})`).join(', ')
RECURSIVE Join(_)
Join(strs) ==
  IF strs = <<>> THEN ""
  ELSE IF Len(strs) = 1 THEN strs[1]
  ELSE strs[1] \o ", " \o Join(Tail(strs))

TopCountriesStr(countryData) ==
  LET top == SliceTo(countryData, TopCountries)
  IN  Join([j \in 1..Len(top) |-> top[j].name \o " (" \o ToString(top[j].value) \o ")"])

\* the object GD returns for an empty commit list
EmptyResultGD ==
  [hriData |-> <<>>,
   geoData |-> [countryData |-> <<>>, diversityScore |-> 0, pieData |-> <<>>],
   heatmapData |-> <<>>, globalScore |-> 0, openRank |-> 0,
   totalCommits |-> 0, totalContributors |-> 0, rawCommits |-> <<>>,
   topContributors |-> <<>>, hriCoverage |-> 0, topCountriesStr |-> ""]

\* the returned metrics object (the pass-through fields history,
\* regionalHistory and radarData are left out)
Metrics(v, cm, hourly, heatmap, cc, cs, ranking, rnd) ==
  LET countryData == CountryData(cc)
      pieData == PieData(v, countryData)
      diversityScore == DiversityScore(v, Len(cc), rnd)
      hriScore == HriScore(v, hourly)
      globalScore == GlobalScore(v, hriScore, diversityScore)
      geoData == [countryData |-> countryData, diversityScore |-> diversityScore,
                  pieData |-> pieData]
      hriCoverage == RoundPer24(ActiveHours(hourly))
  IN  CASE v = "GP" ->
             [hriData |-> HriData(hourly), geoData |-> geoData,
              heatmapData |-> heatmap, globalScore |-> globalScore,
              openRank |-> OpenRank(v, globalScore, rnd),
              totalCommits |-> Len(cm),
              totalContributors |-> DistinctContributors(cm),
              rawCommits |-> cm, hriCoverage |-> hriCoverage,
              filteredContributors |-> ranking, rawData |-> [commits |-> cm]]
        [] v \in {"P1", "P2"} ->
             [hriData |-> HriData(hourly), heatmapData |-> heatmap,
              geoData |-> geoData, totalCommits |-> Len(cm),
              totalContributors |-> Len(cs), globalScore |-> globalScore,
              hriCoverage |-> hriCoverage, filteredContributors |-> ranking,
              rawData |-> [commits |-> cm]]
        [] v = "GD" ->
             [hriData |-> HriData(hourly), geoData |-> geoData,
              heatmapData |-> heatmap, globalScore |-> globalScore,
              openRank |-> OpenRank(v, globalScore, rnd),
              totalCommits |-> Len(cm),
              totalContributors |-> DistinctContributors(cm),
              rawCommits |-> cm, hriCoverage |-> hriCoverage,
              topCountriesStr |-> TopCountriesStr(countryData),
              topContributors |-> ranking]

\* a run of the code with the region filter applied to the country counts
\* as well as to the contributors
FinalizeFilteredCountries(v, cm, filter, hourly, heatmap, cc, cs, rnd) ==
  LET Match(e) == e.name = filter
  IN  Metrics(v, cm, hourly, heatmap,
              IF v # "GD" /\ Truthy(filter) THEN Filter(cc, Match) ELSE cc,
              cs, RankContributors(v, cs, filter), rnd)

\* everything after the forEach loop: only the ranking depends on the filter
Finalize(v, cm, filter, hourly, heatmap, cc, cs, rnd) ==
  Metrics(v, cm, hourly, heatmap, cc, cs, RankContributors(v, cs, filter), rnd)

\* the ranking field of a returned metrics object
Ranking(v, r) == IF v = "GD" THEN r.topContributors ELSE r.filteredContributors

(* ------------------------------ actions -------------------------------- *)

Locals == <<idx, hourlyCounts, heatmapGrid, countryCounts, contributorStats>>

\* the state of the insight panel, and the hook's own state
Insight == <<apiKey, insightText, insightLoading, inflight>>
Hook == <<commits, regionFilter, pc, result, Locals>>

\* the loading flag of the app and the number of its delay timers pending
Loading == <<loading, timers>>


\* the dashboard app, and the state of the task manager
Dashboard == <<variant, effectPending, Hook, selectedProject, Insight, Loading>>
Tasks == <<impl, tasks, filteredTasks, editingTask, searchText, selectedPriority>>

\* the state of a Product with the calls made on it, and of the DataLoader
\* with the loads it made
Product == <<price, discount, originalPrice, applied, productPc>>
Loader == <<isLoading, errorMessage, loadPc, started, emitted, lastLoad>>

\* the other components of the repository
Apps == <<Tasks, Product, Loader>>

\* the task list each task manager is constructed with: TaskList.vue has no
\* priority field (the empty string here)
InitialTasks(i) ==
  <<[id |-> 1, name |-> "Task 1", priority |-> IF i = "vue" THEN "" ELSE "high"],
    [id |-> 2, name |-> "Task 2", priority |-> IF i = "vue" THEN "" ELSE "medium"]>>

\* the task manager i as constructed
TasksInit(i) ==
  /\ impl = i
  /\ tasks = InitialTasks(i)
  /\ filteredTasks = InitialTasks(i)
  /\ editingTask = 0
  /\ searchText = ""
  /\ selectedPriority = ""

\* a price as the fraction num / den in lowest terms
Whole(n) == [num |-> n, den |-> 1]

\* new Product(name, description, p, stockQuantity, category)
ProductInit(p) ==
  /\ price = Whole(p)
  /\ discount = 0
  /\ originalPrice = p
  /\ applied = <<>>
  /\ productPc = "new"

\* data() of the DataLoader
LoaderInit ==
  /\ isLoading = FALSE
  /\ errorMessage = ""
  /\ loadPc = "idle"
  /\ started = 0
  /\ emitted = <<>>
  /\ lastLoad = "none"

\* the other components as constructed
AppsInit ==
  /\ TasksInit("jsx")
  /\ ProductInit(1200)
  /\ LoaderInit

\* mount: no data yet, no filter, the [project, range] effect still to run
Init ==
  /\ variant \in Variants
  /\ commits = <<>>
  /\ regionFilter = NullFilter
  /\ effectPending = TRUE
  /\ pc = "generate"
  /\ idx = 0
  /\ hourlyCounts = EmptyHourly
  /\ heatmapGrid = EmptyHeatmap
  /\ countryCounts = <<>>
  /\ contributorStats = <<>>
  /\ result = NULL
  /\ selectedProject = "Project-A"
  /\ apiKey = FALSE
  /\ insightText = ""
  /\ insightLoading = FALSE
  /\ inflight = <<>>
  /\ loading = TRUE
  /\ timers = 0
  /\ AppsInit

\* the first memo of the hook: the commit list of the selected project and
\* time range
generate ==
  /\ pc = "generate"
  /\ commits' \in CommitListsOf(variant, selectedProject)
  /\ pc' = "start"
  /\ UNCHANGED <<variant, regionFilter, effectPending, result, Locals>>
  /\ UNCHANGED <<selectedProject, Insight, Loading>>
  /\ UNCHANGED Apps

\* entry of the second memo: the early return for an empty commit list
\* (GP: null, GD: the empty metrics object), else the containers
Begin ==
  /\ pc = "start"
  /\ IF Len(commits) = 0 /\ variant \in {"GP", "GD"}
       THEN /\ result' = (IF variant = "GP" THEN NULL ELSE EmptyResultGD)
            /\ pc' = "done"
            /\ UNCHANGED Locals
       ELSE /\ hourlyCounts' = EmptyHourly
            /\ heatmapGrid' = EmptyHeatmap
            /\ countryCounts' = <<>>
            /\ contributorStats' = <<>>
            /\ idx' = 1
            /\ pc' = "loop"
            /\ UNCHANGED result
  /\ UNCHANGED <<variant, commits, regionFilter, effectPending>>
  /\ UNCHANGED <<selectedProject, Insight, Loading>>
  /\ UNCHANGED Apps

\* one iteration of commits.forEach
Step ==
  /\ pc = "loop"
  /\ idx <= Len(commits)
  /\ commits[idx].timestamp_unix # MissingTimestamp
  /\ LET c == commits[idx]
         utcHour == UtcHour(c.timestamp_unix)
         day == UtcDay(c.timestamp_unix)
     IN  /\ hourlyCounts' = CountHour(hourlyCounts, utcHour)
         /\ heatmapGrid' = CountHeat(heatmapGrid, day, utcHour)
         /\ countryCounts' = CountCountry(countryCounts, c.location_iso3)
         /\ contributorStats' = CountContributor(variant, contributorStats, c)
  /\ commits' = EventsAfter(variant, commits, idx)
  /\ idx' = idx + 1
  /\ UNCHANGED <<variant, regionFilter, effectPending, pc, result>>
  /\ UNCHANGED <<selectedProject, Insight, Loading>>
  /\ UNCHANGED Apps

\* an iteration for a commit without timestamp: utcHour and day are NaN,
\* hourlyCounts[NaN]++ only adds a property to the array, and
\* heatmapGrid[NaN] is undefined, so that heatmapGrid[day][utcHour]++ throws
\* a TypeError out of the memo; nothing catches it
StepThrows ==
  /\ pc = "loop"
  /\ idx <= Len(commits)
  /\ commits[idx].timestamp_unix = MissingTimestamp
  /\ pc' = "threw"
  /\ UNCHANGED <<variant, commits, regionFilter, effectPending, result, Locals>>
  /\ UNCHANGED <<selectedProject, Insight, Loading>>
  /\ UNCHANGED Apps

\* the containers are locals of the computation and are gone on return
ResetLocals ==
  /\ idx' = 0
  /\ hourlyCounts' = EmptyHourly
  /\ heatmapGrid' = EmptyHeatmap
  /\ countryCounts' = <<>>
  /\ contributorStats' = <<>>

\* the code after the loop, up to the return
Finish ==
  /\ pc = "loop"
  /\ idx > Len(commits)
  /\ \E rnd \in RandomDraws :
       result' = Finalize(variant, commits, regionFilter, hourlyCounts,
                          heatmapGrid, countryCounts, contributorStats, rnd)
  /\ pc' = "done"
  /\ ResetLocals
  /\ UNCHANGED <<variant, commits, regionFilter, effectPending>>
  /\ UNCHANGED <<selectedProject, Insight, Loading>>
  /\ UNCHANGED Apps

\* the effect without its cleanup: the timer of the previous run stays
TimersAfterEffectLeak(n) == n + 1

\* the timers pending after a run of the effect: the cleanup of the previous
\* run has cleared its timer (clearTimeout(t)), and setTimeout adds one
TimersAfterEffect(n) == 1

\* the effect on [project, range], run after the render that follows a
\* change (and after mount): it sets the loading flag and a timer that is
\* to clear it; it resets the region filter, and a filter that
\* was set makes the hook recompute; the previous metrics object stays in
\* place until the new one is returned.  It also clears the insight text;
\* P1 and P2 reset the loading flag of the insight with it
resetEffect ==
  /\ pc = "done"
  /\ effectPending
  /\ effectPending' = FALSE
  /\ IF variant # "GD" /\ regionFilter # NullFilter
       THEN regionFilter' = NullFilter /\ pc' = "start"
       ELSE UNCHANGED <<regionFilter, pc>>
  /\ insightText' = ""
  /\ insightLoading' = (IF variant \in {"P1", "P2"} THEN FALSE ELSE insightLoading)
  /\ loading' = TRUE
  /\ timers' = TimersAfterEffect(timers)
  /\ UNCHANGED <<variant, commits, result, Locals>>
  /\ UNCHANGED <<selectedProject, apiKey, inflight>>
  /\ UNCHANGED Apps

\* the click handler toggling on every sector, the synthetic one included
FilterAfterClickAny(v, filter, name) ==
  IF filter = name THEN NullFilter ELSE name

\* the filter after a click on the sector called name: GP tests
\* data.name && data.name !== 'Others', P1 d.name !== 'Other', P2
\* d.name !== 'Others', and then sets null when the filter is that name and
\* the name otherwise
FilterAfterClick(v, filter, name) ==
  IF name = OtherName(v) \/ (v = "GP" /\ name = "")
    THEN filter
    ELSE IF filter = name THEN NullFilter ELSE name

\* click on the pie sector d, any sector of the chart; a changed filter
\* makes the hook recompute, an unchanged one leaves everything as it is
handlePieClick ==
  /\ pc = "done"
  /\ ~effectPending
  /\ variant # "GD"
  /\ result # NULL
  /\ \E j \in 1..Len(result.geoData.pieData) :
       LET d == result.geoData.pieData[j]
       IN  regionFilter' = FilterAfterClick(variant, regionFilter, d.name)
  /\ pc' = (IF regionFilter' # regionFilter THEN "start" ELSE pc)
  /\ UNCHANGED <<variant, commits, effectPending, result, Locals>>
  /\ UNCHANGED <<selectedProject, Insight, Loading>>
  /\ UNCHANGED Apps

\* the reset button shown while a filter is set
resetFilter ==
  /\ pc = "done"
  /\ ~effectPending
  /\ variant # "GD"
  /\ Truthy(regionFilter)
  /\ regionFilter' = NullFilter
  /\ pc' = "start"
  /\ UNCHANGED <<variant, commits, effectPending, result, Locals>>
  /\ UNCHANGED <<selectedProject, Insight, Loading>>
  /\ UNCHANGED Apps

\* a change of project or (same project) of time range: the data is
\* generated anew and the effect is due; the filter keeps its value until
\* the effect runs, and nothing of the previous data set is kept.  GD has
\* no time range
changeProject ==
  /\ pc = "done"
  /\ ~effectPending
  /\ \E p \in Projects :
       /\ variant = "GD" => p # selectedProject
       /\ selectedProject' = p
  /\ commits' = <<>>
  /\ effectPending' = TRUE
  /\ pc' = "generate"
  /\ result' = NULL
  /\ UNCHANGED <<variant, regionFilter, Locals, Insight, Loading>>
  /\ UNCHANGED Apps

Next ==
  \/ generate \/ Begin \/ Step \/ Finish
  \/ resetEffect \/ resetFilter \/ handlePieClick \/ changeProject

Spec == Init /\ [][Next]_vars

\* the hook fed with commit lists that need not be clean
generateUnclean ==
  /\ pc = "generate"
  /\ commits' \in UncleanLists
  /\ pc' = "start"
  /\ UNCHANGED <<variant, regionFilter, effectPending, result, Locals>>
  /\ UNCHANGED <<selectedProject, Insight, Loading>>
  /\ UNCHANGED Apps

NextUnclean ==
  \/ generateUnclean \/ Begin \/ Step \/ StepThrows \/ Finish
  \/ resetEffect \/ resetFilter \/ handlePieClick \/ changeProject

SpecUnclean == Init /\ [][NextUnclean]_vars

(* --------------------------- the insight panel ------------------------- *)

\* texts of the insight panel: the hint shown without API key, the text of
\* an answer to a request made for a project, the text shown for an answer
\* without candidates, and the error text (the source texts are Chinese)
Hint == "configure an API key"
InsightOn(project) == "insight on " \o project
NoAnswer == "analysis returned nothing"
Failed == "request failed"

\* sequence s without its i-th element
Without(s, i) == SubSeq(s, 1, i - 1) \o SubSeq(s, i + 1, Len(s))

\* the state after mount of a deployment, with or without API key
InitInsight ==
  /\ variant \in Variants
  /\ commits = <<>>
  /\ regionFilter = NullFilter
  /\ effectPending = TRUE
  /\ pc = "generate"
  /\ idx = 0
  /\ hourlyCounts = EmptyHourly
  /\ heatmapGrid = EmptyHeatmap
  /\ countryCounts = <<>>
  /\ contributorStats = <<>>
  /\ result = NULL
  /\ selectedProject = "Project-A"
  /\ apiKey \in BOOLEAN
  /\ insightText = ""
  /\ insightLoading = FALSE
  /\ inflight = <<>>
  /\ loading = TRUE
  /\ timers = 0
  /\ AppsInit

\* the data of the selected project: one short commit list per project
generateSample ==
  /\ pc = "generate"
  /\ commits' = (IF selectedProject = "Project-A"
                   THEN generateMockData(variant, Fixture(variant, 2, 2))
                   ELSE SubSeq(OnePerHour(variant), 1, 1))
  /\ pc' = "start"
  /\ UNCHANGED <<variant, regionFilter, effectPending, result, Locals>>
  /\ UNCHANGED <<selectedProject, Insight, Loading>>
  /\ UNCHANGED Apps

\* click on the generate button (disabled while an insight is loading; in
\* GP and GD also without API key) up to the first await: without key the
\* hint is shown, else the flag is set, the text cleared and the request
\* sent with the project and data of this render
generateInsight ==
  /\ pc = "done" /\ ~effectPending /\ result # NULL
  /\ ~insightLoading
  /\ variant \in {"GP", "GD"} => apiKey
  /\ IF ~apiKey
       THEN /\ insightText' = Hint
            /\ UNCHANGED <<insightLoading, inflight>>
       ELSE /\ Len(inflight) < MaxInflight
            /\ insightLoading' = TRUE
            /\ insightText' = ""
            /\ inflight' = Append(inflight, [project |-> selectedProject,
                                             attempt |-> 0, phase |-> "fetch"])
  /\ UNCHANGED <<variant, effectPending, selectedProject, apiKey, Hook, Loading>>
  /\ UNCHANGED Apps

\* the answer to a request arrives: its text (or the text for an answer
\* without candidates) is shown and the loading flag cleared
respondOk ==
  /\ pc = "done"
  /\ \E i \in 1..Len(inflight) : \E hasText \in BOOLEAN :
       /\ inflight[i].phase = "fetch"
       /\ insightText' = (IF hasText THEN InsightOn(inflight[i].project) ELSE NoAnswer)
       /\ inflight' = Without(inflight, i)
  /\ insightLoading' = FALSE
  /\ UNCHANGED <<variant, effectPending, selectedProject, apiKey, Hook, Loading>>
  /\ UNCHANGED Apps

\* the bound of the retry test off by one: attempt <= MAX_RETRIES - 1
RetryAgainOnceMore(v, attempt) == v = "GD" /\ attempt <= MAX_RETRIES - 1

\* catch (e) { lastError = e; if (attempt < MAX_RETRIES - 1) ... }: only GD
\* has the loop
RetryAgain(v, attempt) == v = "GD" /\ attempt < MAX_RETRIES - 1

\* a request fails (fetch rejects; in GD also a status that is not ok): GD
\* waits and tries again while attempts are left, else the error text is
\* shown and the loading flag cleared
respondFail ==
  /\ pc = "done"
  /\ \E i \in 1..Len(inflight) :
       /\ inflight[i].phase = "fetch"
       /\ IF RetryAgain(variant, inflight[i].attempt)
            THEN /\ inflight' = [inflight EXCEPT ![i].phase = "wait"]
                 /\ UNCHANGED <<insightText, insightLoading>>
            ELSE /\ inflight' = Without(inflight, i)
                 /\ insightText' = Failed
                 /\ insightLoading' = FALSE
  /\ UNCHANGED <<variant, effectPending, selectedProject, apiKey, Hook, Loading>>
  /\ UNCHANGED Apps

\* the delay before the next attempt has passed (GD)
backoffElapsed ==
  /\ pc = "done"
  /\ \E i \in 1..Len(inflight) :
       /\ inflight[i].phase = "wait"
       /\ inflight' = [inflight EXCEPT ![i].phase = "fetch", ![i].attempt = @ + 1]
  /\ UNCHANGED <<variant, effectPending, selectedProject, apiKey, Hook, Loading>>
  /\ UNCHANGED <<insightText, insightLoading>>
  /\ UNCHANGED Apps

\* the delay timer of the effect fires: setLoading(false)
loadingTimer ==
  /\ pc = "done"
  /\ timers > 0
  /\ timers' = timers - 1
  /\ loading' = FALSE
  /\ UNCHANGED <<variant, effectPending, selectedProject, Insight, Hook>>
  /\ UNCHANGED Apps

NextInsight ==
  \/ generateSample \/ Begin \/ Step \/ Finish \/ resetEffect \/ changeProject
  \/ generateInsight \/ respondOk \/ respondFail \/ backoffElapsed
  \/ loadingTimer \/ handlePieClick \/ resetFilter

SpecInsight == InitInsight /\ [][NextInsight]_vars

(* --------------------------- the task manager -------------------------- *)

\* the three task managers: task.jsx (React), TaskList.vue, and Task.react
\* (the Vue manager with the priority filter)
TaskImpls == {"jsx", "vue", "react"}

\* what the task form submits: a name and, but in TaskList.vue, a priority
\* (the description is carried like the name and left out)
FormData(i) ==
  [name : {"Fix"},
   priority : IF i = "vue" THEN {""} ELSE {"low"}]

\* what can be typed into the search box, and chosen in the priority filter
SearchTexts == {"", "Task", "fix"}
PriorityChoices == {"", "low"}

\* String.prototype.toLowerCase on the strings that occur
ToLowerCase(str) ==
  CASE str = "Task 1" -> "task 1" [] str = "Task 2" -> "task 2"
    [] str = "Fix" -> "fix" [] str = "Task" -> "task"
    [] OTHER -> str

\* String.prototype.includes on the lower-cased strings that occur
Includes(str, part) ==
  \/ part = ""
  \/ str = part
  \/ part = "task" /\ str \in {"task 1", "task 2"}

\* tasks.filter(task => task.name.toLowerCase().includes(text.toLowerCase()))
MatchingName(ts, text) ==
  LET Test(t) == Includes(ToLowerCase(t.name), ToLowerCase(text))
  IN  SelectSeq(ts, Test)

\* tasks.filter(task => task.priority === priority)
MatchingPriority(ts, priority) ==
  LET Test(t) == t.priority = priority
  IN  SelectSeq(ts, Test)

\* tasks.filter(task => task.id !== taskId)
WithoutId(ts, taskId) ==
  LET Test(t) == t.id # taskId
  IN  SelectSeq(ts, Test)

\* the ids of the rows of a list
TaskIds(ts) == {ts[j].id : j \in 1..Len(ts)}

\* tasks.findIndex(task => task.id === taskId), 0 for -1
FindIndex(ts, taskId) ==
  IF taskId \in TaskIds(ts)
    THEN CHOOSE j \in 1..Len(ts) :
           /\ ts[j].id = taskId
           /\ \A k \in 1..(j - 1) : ts[k].id # taskId
    ELSE 0

\* the id given to a new task: tasks.length + 1
NextId(ts) == Len(ts) + 1

\* the displayed list after the form was submitted: resetForm of the Vue
\* managers assigns this.filteredTasks = this.tasks, handleAddTask and
\* handleUpdateTask of task.jsx leave filteredTasks alone
ShownAfterSubmit(i, shown, ts) == IF i = "jsx" THEN shown ELSE ts

\* the displayed list after a delete: handleDeleteTask of task.jsx sets it,
\* deleteTask of the Vue managers replaces this.tasks only
ShownAfterDelete(i, shown, ts) == IF i = "jsx" THEN ts ELSE shown

\* no task is being edited (null / isEditing false), and the value of
\* currentTask after find() found nothing
NotEditing == 0
UndefinedTask == 0 - 1

\* typing into the search box
handleSearch ==
  /\ \E text \in SearchTexts :
       /\ searchText' = text
       /\ filteredTasks' = (IF text # "" THEN MatchingName(tasks, text) ELSE tasks)
  /\ UNCHANGED <<impl, tasks, editingTask, selectedPriority>>
  /\ UNCHANGED Dashboard
  /\ UNCHANGED <<Product, Loader>>

\* choosing a priority in the filter of Task.react
filterTasks ==
  /\ impl = "react"
  /\ \E priority \in PriorityChoices :
       /\ selectedPriority' = priority
       /\ filteredTasks' = (IF priority # "" THEN MatchingPriority(tasks, priority)
                                              ELSE tasks)
  /\ UNCHANGED <<impl, tasks, editingTask, searchText>>
  /\ UNCHANGED Dashboard
  /\ UNCHANGED <<Product, Loader>>

\* the Edit button of a displayed row: the task is looked up in tasks; in
\* task.jsx an undefined editingTask is the add mode again
handleEditTask ==
  /\ editingTask # UndefinedTask
  /\ \E taskId \in TaskIds(filteredTasks) :
       editingTask' = (IF taskId \in TaskIds(tasks) THEN taskId
                       ELSE IF impl = "jsx" THEN NotEditing ELSE UndefinedTask)
  /\ UNCHANGED <<impl, tasks, filteredTasks, searchText, selectedPriority>>
  /\ UNCHANGED Dashboard
  /\ UNCHANGED <<Product, Loader>>

\* submitting the form in add mode
handleAddTask ==
  /\ editingTask = NotEditing
  /\ Len(tasks) < MaxTasks
  /\ \E taskData \in FormData(impl) :
       tasks' = Append(tasks, [id |-> NextId(tasks), name |-> taskData.name,
                               priority |-> taskData.priority])
  /\ filteredTasks' = ShownAfterSubmit(impl, filteredTasks, tasks')
  /\ UNCHANGED <<impl, editingTask, searchText, selectedPriority>>
  /\ UNCHANGED Dashboard
  /\ UNCHANGED <<Product, Loader>>

\* submitting the form in edit mode: task.jsx maps over every task with the
\* edited id, the Vue managers assign at findIndex (an index of -1 changes
\* no element)
handleUpdateTask ==
  /\ editingTask \notin {NotEditing, UndefinedTask}
  /\ \E taskData \in FormData(impl) :
       LET updated == [id |-> editingTask, name |-> taskData.name,
                       priority |-> taskData.priority]
           index == FindIndex(tasks, editingTask)
       IN  tasks' = (IF impl = "jsx"
                       THEN [j \in 1..Len(tasks) |->
                               IF tasks[j].id = editingTask THEN updated
                               ELSE tasks[j]]
                       ELSE IF index = 0 THEN tasks
                       ELSE [tasks EXCEPT ![index] = updated])
  /\ editingTask' = NotEditing
  /\ filteredTasks' = ShownAfterSubmit(impl, filteredTasks, tasks')
  /\ UNCHANGED <<impl, searchText, selectedPriority>>
  /\ UNCHANGED Dashboard
  /\ UNCHANGED <<Product, Loader>>

\* the Delete button of a displayed row
handleDeleteTask ==
  /\ \E taskId \in TaskIds(filteredTasks) :
       tasks' = WithoutId(tasks, taskId)
  /\ filteredTasks' = ShownAfterDelete(impl, filteredTasks, tasks')
  /\ UNCHANGED <<impl, editingTask, searchText, selectedPriority>>
  /\ UNCHANGED Dashboard
  /\ UNCHANGED <<Product, Loader>>

\* the dashboard before it is mounted
DashboardIdle ==
  /\ variant = "GP"
  /\ commits = <<>>
  /\ regionFilter = NullFilter
  /\ effectPending = TRUE
  /\ pc = "generate"
  /\ idx = 0
  /\ hourlyCounts = EmptyHourly
  /\ heatmapGrid = EmptyHeatmap
  /\ countryCounts = <<>>
  /\ contributorStats = <<>>
  /\ result = NULL
  /\ selectedProject = "Project-A"
  /\ apiKey = FALSE
  /\ insightText = ""
  /\ insightLoading = FALSE
  /\ inflight = <<>>
  /\ loading = TRUE
  /\ timers = 0

InitTasks ==
  /\ DashboardIdle
  /\ \E i \in TaskImpls : TasksInit(i)
  /\ ProductInit(1200)
  /\ LoaderInit

NextTasks ==
  \/ handleSearch \/ filterTasks \/ handleEditTask
  \/ handleAddTask \/ handleUpdateTask \/ handleDeleteTask

SpecTasks == InitTasks /\ [][NextTasks]_vars

(* ------------------------------ the product --------------------------- *)

\* prices products are constructed with, and discount percentages in [0, 100)
Prices == {150, 800, 1200}
Percentages == {0, 10, 20, 50}

\* greatest common divisor of two naturals, not both 0
RECURSIVE Gcd(_, _)
Gcd(a, b) == IF b = 0 THEN a ELSE Gcd(b, a % b)

\* the fraction n / d in lowest terms (the double arithmetic of the source
\* is taken as exact)
Fraction(n, d) == [num |-> n \div Gcd(n, d), den |-> d \div Gcd(n, d)]

\* price - (price * discountPercentage / 100)
Discounted(pr, percentage) ==
  Fraction(pr.num * (100 - percentage), pr.den * 100)

\* price / (1 - discount / 100), discount being the stored percentage
Undiscounted(pr, dsc) ==
  Fraction(pr.num * 100, pr.den * (100 - dsc))

\* new Product(...) with price p
construct ==
  /\ \E p \in Prices :
       /\ price' = Whole(p)
       /\ originalPrice' = p
  /\ discount' = 0
  /\ applied' = <<>>
  /\ productPc' = "new"
  /\ UNCHANGED <<Dashboard, Tasks, Loader>>

\* applyDiscount(discountPercentage)
applyDiscount ==
  /\ productPc # "reset"
  /\ Len(applied) < MaxDiscounts
  /\ \E percentage \in Percentages :
       /\ discount' = percentage
       /\ price' = Discounted(price, percentage)
       /\ applied' = Append(applied, percentage)
  /\ productPc' = "discounted"
  /\ UNCHANGED originalPrice
  /\ UNCHANGED <<Dashboard, Tasks, Loader>>

\* resetDiscount()
resetDiscount ==
  /\ productPc # "reset"
  /\ price' = Undiscounted(price, discount)
  /\ discount' = 0
  /\ productPc' = "reset"
  /\ UNCHANGED <<originalPrice, applied>>
  /\ UNCHANGED <<Dashboard, Tasks, Loader>>

InitProduct ==
  /\ DashboardIdle
  /\ TasksInit("jsx")
  /\ \E p \in Prices : ProductInit(p)
  /\ LoaderInit

NextProduct == construct \/ applyDiscount \/ resetDiscount

SpecProduct == InitProduct /\ [][NextProduct]_vars

(* ----------------------------- the data loader ------------------------ *)

\* bodies a response can be parsed to, and the text shown after a failure
Payloads == {"rows", "empty"}
ErrorLoading == "Error loading data."

\* the loading flag left as it is when the load failed
IsLoadingAfterStuck(was, outcome) == was /\ outcome = "failed"

\* the loading flag after a load: the finally block clears it whatever the
\* outcome
IsLoadingAfter(was, outcome) == FALSE

\* a click on the Load Data button, which is disabled while isLoading:
\* loadData up to its first await
loadData ==
  /\ ~isLoading
  /\ started < MaxLoads
  /\ isLoading' = TRUE
  /\ errorMessage' = ""
  /\ loadPc' = "fetch"
  /\ started' = started + 1
  /\ lastLoad' = "pending"
  /\ UNCHANGED emitted
  /\ UNCHANGED <<Dashboard, Tasks, Product>>

\* fetch resolves with a response: loadData goes on to response.json()
fetchResolves ==
  /\ loadPc = "fetch"
  /\ loadPc' = "json"
  /\ UNCHANGED <<isLoading, errorMessage, started, emitted, lastLoad>>
  /\ UNCHANGED <<Dashboard, Tasks, Product>>

\* response.json() resolves with data: the event is emitted, then finally
jsonResolves ==
  /\ loadPc = "json"
  /\ \E data \in Payloads : emitted' = Append(emitted, data)
  /\ isLoading' = IsLoadingAfter(isLoading, "ok")
  /\ loadPc' = "idle"
  /\ lastLoad' = "ok"
  /\ UNCHANGED <<errorMessage, started>>
  /\ UNCHANGED <<Dashboard, Tasks, Product>>

\* fetch or response.json() rejects: the catch block, then finally
loadFails ==
  /\ loadPc \in {"fetch", "json"}
  /\ errorMessage' = ErrorLoading
  /\ isLoading' = IsLoadingAfter(isLoading, "failed")
  /\ loadPc' = "idle"
  /\ lastLoad' = "failed"
  /\ UNCHANGED <<started, emitted>>
  /\ UNCHANGED <<Dashboard, Tasks, Product>>

InitLoader ==
  /\ DashboardIdle
  /\ TasksInit("jsx")
  /\ ProductInit(1200)
  /\ LoaderInit

NextLoader == loadData \/ fetchResolves \/ jsonResolves \/ loadFails

SpecLoader == InitLoader /\ [][NextLoader]_vars

(* ----------------------------- properties ----------------------------- *)

SumCommits(hri) == SumSeq([j \in 1..Len(hri) |-> hri[j].commits])
SumValues(cd) == SumSeq([j \in 1..Len(cd) |-> cd[j].value])

\* a metrics object has been returned
Returned == pc = "done" /\ result # NULL

\* the fields of a metrics object other than the contributor ranking and
\* the derived openRank / totals
Headline(r) ==
  [hriData |-> r.hriData, heatmapData |-> r.heatmapData,
   countryData |-> r.geoData.countryData, pieData |-> r.geoData.pieData,
   hriCoverage |-> r.hriCoverage, diversityScore |-> r.geoData.diversityScore,
   globalScore |-> r.globalScore]

\* C1: a recomputation caused by a change of the region filter (the
\* previous metrics object of the same commit list is still in place)
\* returns the same histogram, heatmap, country distribution, top-5
\* projection and scores as before; only the ranking may differ
C1_FilterOnlyAffectsRanking ==
  [][(pc = "loop" /\ pc' = "done" /\ result # NULL)
       => Headline(result') = Headline(result)]_vars

\* a filter is set and has removed a contributor from the ranking
C1_Witness ==
  /\ Returned /\ variant # "GD" /\ Truthy(regionFilter)
  /\ Len(result.filteredContributors)
       < Min(TopK(variant), DistinctContributors(commits))
  /\ Len(result.geoData.countryData) > 1

\* C2: the hour buckets sum to the number of commits processed so far
\* during the loop, and to the number of commits in the returned histogram
C2_HistogramSum ==
  /\ pc = "loop" => SumSeq([p \in 1..24 |-> hourlyCounts[p - 1]]) = idx - 1
  /\ Returned => /\ SumCommits(result.hriData) = Len(commits)
                 /\ result.totalCommits = Len(commits)

\* two commits of the same UTC hour have been counted
C2_Witness ==
  /\ Returned /\ Len(commits) >= 2
  /\ \E p \in 1..Len(result.hriData) : result.hriData[p].commits >= 2

\* C3: for every hour the weekday cells of the heatmap sum to the hour's
\* bucket, after each processed commit and in the returned object
C3_HeatmapColumns ==
  /\ pc = "loop" =>
       \A h \in Hours :
         SumSeq([p \in 1..7 |-> heatmapGrid[p - 1][h]]) = hourlyCounts[h]
  /\ (Returned /\ Len(commits) > 0) =>
       \A h \in Hours :
         SumSeq([p \in 1..7 |-> result.heatmapData[p - 1][h]])
           = result.hriData[h + 1].commits

\* inside the loop an hour holds commits of two different weekdays
C3_Witness ==
  /\ pc = "loop" /\ idx > 1
  /\ \E h \in Hours : \E d1, d2 \in Days :
       d1 # d2 /\ heatmapGrid[d1][h] > 0 /\ heatmapGrid[d2][h] > 0

Unique(names) == \A i, j \in 1..Len(names) : names[i] = names[j] => i = j

\* C4: the country counts sum to the number of commits and no country
\* appears twice, during the loop and in the returned distribution
C4_CountrySum ==
  /\ pc = "loop" =>
       /\ SumValues(countryCounts) = idx - 1
       /\ Unique([j \in 1..Len(countryCounts) |-> countryCounts[j].name])
  /\ Returned =>
       LET cd == result.geoData.countryData
       IN  /\ SumValues(cd) = Len(commits)
           /\ Unique([j \in 1..Len(cd) |-> cd[j].name])

\* a country with several commits next to another country
C4_Witness ==
  /\ Returned
  /\ Len(result.geoData.countryData) >= 2
  /\ result.geoData.countryData[1].value >= 2

\* C5: the collapsed distribution has the same count sum as the full
\* distribution, for the code's n = 5 and for every n in 0..MaxN
C5_CollapseLossless ==
  Returned =>
    LET cd == result.geoData.countryData
    IN  /\ SumValues(result.geoData.pieData) = SumValues(cd)
        /\ \A n \in 0..MaxN : SumValues(PieDataN(variant, cd, n)) = SumValues(cd)

\* more than five countries, and a remainder of several commits
C5_Witness ==
  /\ Returned
  /\ Len(result.geoData.countryData) > TopCountries
  /\ Len(result.geoData.pieData) = TopCountries + 1
  /\ result.geoData.pieData[TopCountries + 1].value >= 2

\* the collapsed form of the distribution cd for n, with the synthetic entry
\* named `name`
Collapsed(cd, n, name) ==
  LET rest == SliceFrom(cd, n)
      other == SumValues(rest)
  IN  SliceTo(cd, n) \o (IF other > 0 THEN <<[name |-> name, value |-> other]>> ELSE <<>>)

\* C6 as stated: the first five entries unchanged, then one entry named
\* "Other" with the remaining sum iff that sum is positive
C6_NamedOther ==
  Returned => result.geoData.pieData = Collapsed(result.geoData.countryData, TopCountries, "Other")

\* C6 as amended: the same with the synthetic entry named as the copy of the
\* hook names it ("Others" in GP and P2, "Other" in P1, the Chinese label in
\* GD); a distribution of n or fewer entries is returned as it is
C6_CollapseShape ==
  Returned =>
    LET cd == result.geoData.countryData
    IN  /\ result.geoData.pieData = Collapsed(cd, TopCountries, OtherName(variant))
        /\ Len(cd) <= TopCountries => result.geoData.pieData = cd
        /\ \A n \in 0..MaxN :
             /\ PieDataN(variant, cd, n) = Collapsed(cd, n, OtherName(variant))
             /\ Len(cd) <= n => PieDataN(variant, cd, n) = cd

\* five countries or fewer: nothing is appended
C6_Witness ==
  /\ Returned
  /\ Len(result.geoData.countryData) \in 2..TopCountries
  /\ result.geoData.pieData = result.geoData.countryData

\* the ids of the contributors of a commit list, and for one of them the
\* places of its commits among the first n commits
IdsOf(cm) == {cm[j].contributor_id : j \in 1..Len(cm)}
PlacesOf(cm, id, n) == {j \in 1..n : cm[j].contributor_id = id}
FirstPlace(cm, id, n) == CHOOSE j \in PlacesOf(cm, id, n) : \A k \in PlacesOf(cm, id, n) : j <= k
LastPlace(cm, id, n) == CHOOSE j \in PlacesOf(cm, id, n) : \A k \in PlacesOf(cm, id, n) : j >= k

Passing(v, cm, filter) ==
  IF v # "GD" /\ Truthy(filter)
    THEN {id \in IdsOf(cm) : cm[FirstPlace(cm, id, Len(cm))].location_iso3 = filter}
    ELSE IdsOf(cm)

RankedIds(v, r) == {ContributorKey(v, Ranking(v, r)[j]) : j \in 1..Len(Ranking(v, r))}

\* C8: with a filter the ranking holds only contributors whose recorded
\* country is the filter, and all of them when they are no more than topK;
\* without a filter the same with the full contributor set
C8_FilterRestricts ==
  Returned =>
    /\ RankedIds(variant, result) \subseteq Passing(variant, commits, regionFilter)
    /\ Cardinality(Passing(variant, commits, regionFilter)) <= TopK(variant)
         => RankedIds(variant, result) = Passing(variant, commits, regionFilter)
    /\ (variant # "GD" /\ Truthy(regionFilter)) =>
         \A j \in 1..Len(Ranking(variant, result)) :
           ContributorLocation(variant, Ranking(variant, result)[j]) = regionFilter

\* a filter that some contributors pass and others do not
C8_Witness ==
  /\ Returned /\ variant # "GD" /\ Truthy(regionFilter)
  /\ Passing(variant, commits, regionFilter) # {}
  /\ Passing(variant, commits, regionFilter) # IdsOf(commits)
  /\ Len(Ranking(variant, result)) > 0

\* the contributor ids of the model in ascending string order
IdOrder ==
  <<"b0", "b1", "u0", "u1", "u10", "u11", "u12", "u13", "u14", "u15", "u16",
    "u17", "u18", "u19", "u2", "u20", "u3", "u4", "u5", "u6", "u7", "u8", "u9">>

IdLess(a, b) ==
  \E i, j \in 1..Len(IdOrder) : i < j /\ IdOrder[i] = a /\ IdOrder[j] = b

C10_Truncation ==
  Returned =>
    LET passing == Passing(variant, commits, regionFilter)
        ranking == Ranking(variant, result)
    IN  /\ Len(ranking) = Min(TopK(variant), Cardinality(passing))
        /\ Cardinality(RankedIds(variant, result)) = Len(ranking)
        /\ \A j \in 1..Len(ranking) :
             ranking[j].count
               = Cardinality(PlacesOf(commits, ContributorKey(variant, ranking[j]), Len(commits)))
        /\ \A id \in passing \ RankedIds(variant, result) :
             \A j \in 1..Len(ranking) :
               LET n == Cardinality(PlacesOf(commits, id, Len(commits)))
               IN  \/ n < ranking[j].count
                   \/ n = ranking[j].count
                        /\ FirstPlace(commits, id, Len(commits))
                             > FirstPlace(commits, ContributorKey(variant, ranking[j]), Len(commits))

\* more passing contributors than topK, and the last ranked one has fewer
\* commits than the first
C10_Witness ==
  /\ Returned
  /\ Cardinality(Passing(variant, commits, regionFilter)) > TopK(variant)
  /\ Len(Ranking(variant, result)) = TopK(variant)
  /\ Ranking(variant, result)[1].count > Ranking(variant, result)[TopK(variant)].count

\* the hook has returned for an empty commit list
ReturnedForEmpty == pc = "done" /\ Len(commits) = 0

\* C11: for an empty commit list the hook returns a metrics object (never
\* null) with a histogram of 24 zeros, a 7 x 24 heatmap of zeros, an empty
\* country distribution, all scores 0 and an empty ranking
C11_EmptyWellFormed ==
  ReturnedForEmpty =>
    /\ result # NULL
    /\ result.hriData = HriData(EmptyHourly)
    /\ result.heatmapData = EmptyHeatmap
    /\ result.geoData.countryData = <<>>
    /\ result.hriCoverage = 0
    /\ result.geoData.diversityScore = 0
    /\ result.globalScore = 0
    /\ Ranking(variant, result) = <<>>

\* what the copies do return for an empty commit list: GP null, GD an
\* object whose histogram and heatmap are empty arrays, P1 and P2 the
\* object described by C11
C11_EmptyPerVariant ==
  ReturnedForEmpty =>
    CASE variant = "GP" -> result = NULL
      [] variant = "GD" -> /\ result.hriData = <<>>
                           /\ result.heatmapData = <<>>
                           /\ result.geoData.countryData = <<>>
                           /\ result.globalScore = 0
                           /\ Ranking(variant, result) = <<>>
      [] OTHER -> /\ result.hriData = HriData(EmptyHourly)
                  /\ result.heatmapData = EmptyHeatmap
                  /\ result.geoData.countryData = <<>>
                  /\ result.geoData.pieData = <<>>
                  /\ result.hriCoverage = 0
                  /\ result.geoData.diversityScore = 0
                  /\ result.globalScore = 0
                  /\ Ranking(variant, result) = <<>>

\* the null return of GP has been reached
C11_Witness == ReturnedForEmpty /\ variant = "GP" /\ result = NULL

\* number of commits with an empty country code among the first n
EmptyCodes(cm, n) == Cardinality({j \in 1..n : cm[j].location_iso3 = ""})

\* the count recorded under the key `name` (0 when there is no such key)
CountOf(cc, name) ==
  IF HasKey(cc, name, CountryKey) THEN cc[IndexOfKey(cc, name, CountryKey)].value ELSE 0

\* C12: the commits with an empty country code are counted under the key
\* "unknown", all of them and under no other key
C12_UnknownBucket ==
  pc = "loop" =>
    /\ CountOf(countryCounts, "unknown") = EmptyCodes(commits, idx - 1)
    /\ ~HasKey(countryCounts, "", CountryKey)

\* what the code does: the empty code is itself the key; no commit is
\* dropped, and no key "unknown" exists
C12_EmptyKeyBucket ==
  /\ pc = "loop" =>
       /\ CountOf(countryCounts, "") = EmptyCodes(commits, idx - 1)
       /\ ~HasKey(countryCounts, "unknown", CountryKey)
       /\ SumValues(countryCounts) = idx - 1
  /\ Returned =>
       /\ CountOf(result.geoData.countryData, "") = EmptyCodes(commits, Len(commits))
       /\ ~HasKey(result.geoData.countryData, "unknown", CountryKey)

\* a commit with an empty country code has been counted, next to one with
\* a code
C12_Witness ==
  /\ pc = "loop" /\ idx = 3
  /\ EmptyCodes(commits, idx - 1) = 1
  /\ Len(countryCounts) = 2

\* C13: a computation with a filter that no contributor of a non-empty
\* commit list passes returns a metrics object with an empty ranking, a
\* complete histogram, heatmap and distribution, and the same histogram,
\* heatmap, distribution, projection and scores as the object returned
\* before for the same commit list
C13_NoMatchEmptyRanking ==
  [][(/\ pc = "loop" /\ pc' = "done" /\ Len(commits) > 0
      /\ Passing(variant, commits, regionFilter) = {})
       => /\ result' # NULL
          /\ Ranking(variant, result') = <<>>
          /\ Len(result'.hriData) = 24
          /\ SumCommits(result'.hriData) = Len(commits)
          /\ DOMAIN result'.heatmapData = Days
          /\ \A d \in Days : DOMAIN result'.heatmapData[d] = Hours
          /\ SumValues(result'.geoData.countryData) = Len(commits)
          /\ result # NULL => Headline(result') = Headline(result)]_vars

\* a filter set by a click on a country in which no contributor made its
\* first commit: the ranking is empty, the distribution is not
C13_Witness ==
  /\ Returned /\ ~effectPending /\ Truthy(regionFilter)
  /\ Passing(variant, commits, regionFilter) = {}
  /\ Ranking(variant, result) = <<>>
  /\ Len(result.geoData.countryData) >= 2
  /\ result.globalScore > 0

\* hour buckets with a count > 0 in a returned histogram
ActiveIn(hri) == Cardinality({p \in 1..Len(hri) : hri[p].commits > 0})

\* C14: the coverage is the number of hour buckets with a count > 0 divided
\* by 24 (returned as a percentage rounded to the nearest integer); it is
\* 100 % exactly when all 24 buckets are > 0 and 0 exactly when none is
C14_TimezoneCoverage ==
  Returned =>
    LET active == ActiveIn(result.hriData)
    IN  /\ (24 * result.hriCoverage - 100 * active) \in -12..12
        /\ result.hriCoverage = 100 <=> active = 24
        /\ result.hriCoverage = 0 <=> active = 0
        /\ (variant \in {"P1", "P2"} /\ Len(result.geoData.countryData) = 1) =>
             2 * 24 * result.globalScore = active * Scale

\* 24 commits, one in every hour of the day
C14_Witness ==
  /\ Returned /\ Len(commits) = 24
  /\ ActiveIn(result.hriData) = 24
  /\ result.hriCoverage = 100

\* |a - b|
Dist(a, b) == IF a < b THEN b - a ELSE a - b

\* min(1, ln k / ln 8) in score units, 0 for k = 0
SpecDiversity(k) == IF k = 0 THEN 0 ELSE LogRatio8(k)

\* C15: the diversity score depends on the number k of distinct countries
\* only; it is 0 for k = 0 and k = 1, min(1, ln k / ln 8) otherwise (up to
\* the two decimals it is rounded to), non-decreasing in k, and 1 for k >= 8
C15_GeoDiversityOfK ==
  Returned =>
    /\ Dist(result.geoData.diversityScore,
            SpecDiversity(Len(result.geoData.countryData))) * 2 <= Hundredth
    /\ \A k \in 0..MaxCountries : \A r1, r2 \in RandomDraws :
         /\ DiversityScore(variant, k, r1) = DiversityScore(variant, k, r2)
         /\ Dist(DiversityScore(variant, k, r1), SpecDiversity(k)) * 2 <= Hundredth
         /\ k <= 1 => DiversityScore(variant, k, r1) = 0
         /\ k >= 8 => DiversityScore(variant, k, r1) = Scale
         /\ DiversityScore(variant, k, r1) <= DiversityScore(variant, k + 1, r1)

\* what the copies compute: GP, P1 and P2 the score of C15 (GP rounded to
\* two decimals); GD 0.9 * min(1, ln k / ln 10) + 0.1 * Math.random(),
\* rounded to two decimals, for k >= 1
C15_GeoDiversityPerVariant ==
  Returned =>
    LET k == Len(result.geoData.countryData)
        d == result.geoData.diversityScore
    IN  IF variant = "GD"
          THEN IF k = 0 THEN d = 0
               ELSE \E rnd \in RandomDraws :
                      Dist(1000 * (d \div Hundredth), LogRatio10x90(k) + 10 * rnd)
                        * 2 <= 1000
          ELSE /\ Dist(d, SpecDiversity(k)) * 2 <= Hundredth
               /\ k <= 1 => d = 0
               /\ k >= 8 => d = Scale

\* GD has returned a positive diversity score for a single country
C15_Witness ==
  /\ Returned /\ variant = "GD"
  /\ Len(result.geoData.countryData) = 1
  /\ result.geoData.diversityScore > 0

\* the coverage of a returned histogram in score units, unrounded
CoverageOf(hri) == ActiveIn(hri) * (Scale \div 24)

\* the returned object is that of 24 commits, one per hour, in one country
OnePerHourReturned ==
  /\ Returned /\ Len(commits) = 24
  /\ ActiveIn(result.hriData) = 24
  /\ Len(result.geoData.countryData) = 1

\* C16: the global score is the mean of coverage and diversity (up to the
\* two decimals the scores are rounded to); 24 commits, one per hour, in one
\* country give coverage 1, diversity 0 and global score 0.5; all three
\* scores lie in [0, 1]
C16_GlobalIsMean ==
  Returned =>
    LET tc == CoverageOf(result.hriData)
        gd == result.geoData.diversityScore
        g == result.globalScore
    IN  /\ Dist(2 * g, tc + gd) <= 2 * Hundredth
        /\ result.hriCoverage \in 0..100 /\ gd \in 0..Scale /\ g \in 0..Scale
        /\ OnePerHourReturned =>
             result.hriCoverage = 100 /\ gd = 0 /\ 2 * g = Scale

\* what the copies compute: GP, P1 and P2 the mean, GD the weighted sum
\* 0.6 * coverage + 0.4 * diversity of the rounded scores, rounded again;
\* the scores lie in [0, 1] in every copy
C16_GlobalPerVariant ==
  Returned =>
    LET tc == CoverageOf(result.hriData)
        gd == result.geoData.diversityScore
        g == result.globalScore
    IN  /\ result.hriCoverage \in 0..100 /\ gd \in 0..Scale /\ g \in 0..Scale
        /\ IF variant = "GD"
             THEN Dist(10 * g, 6 * tc + 4 * gd) <= 10 * Hundredth
             ELSE /\ Dist(2 * g, tc + gd) <= 2 * Hundredth
                  /\ OnePerHourReturned =>
                       result.hriCoverage = 100 /\ gd = 0 /\ 2 * g = Scale

\* GD has returned a global score other than 0.5 for 24 commits, one per
\* hour, in one country
C16_Witness ==
  /\ OnePerHourReturned /\ variant = "GD"
  /\ result.hriCoverage = 100
  /\ 2 * result.globalScore > Scale

\* the object the code about to return would return with the draw rnd
ReturnWith(rnd) ==
  Finalize(variant, commits, regionFilter, hourlyCounts, heatmapGrid,
           countryCounts, contributorStats, rnd)

\* C17: the returned object is determined by the commit list and the
\* filter: whatever the random source yields, every field is the same
C17_Deterministic ==
  [][(pc = "loop" /\ pc' = "done")
       => \A rnd \in RandomDraws : result' = ReturnWith(rnd)]_vars

\* the fields of a metrics object that no copy computes from Math.random()
Drawless(v, r) ==
  [hriData |-> r.hriData, heatmapData |-> r.heatmapData,
   countryData |-> r.geoData.countryData, pieData |-> r.geoData.pieData,
   hriCoverage |-> r.hriCoverage, totalCommits |-> r.totalCommits,
   totalContributors |-> r.totalContributors, ranking |-> Ranking(v, r)]

\* what the copies do: P1 and P2 return the same object whatever is drawn;
\* in GP all fields but openRank, in GD all fields but openRank,
\* diversityScore and globalScore are independent of the draw
C17_DeterministicButDraws ==
  [][(pc = "loop" /\ pc' = "done")
       => \A rnd \in RandomDraws :
            /\ Drawless(variant, result') = Drawless(variant, ReturnWith(rnd))
            /\ variant # "GD" => Headline(result') = Headline(ReturnWith(rnd))
            /\ variant \in {"P1", "P2"} => result' = ReturnWith(rnd)]_vars

\* GP has returned an openRank that another draw would not have given
C17_Witness ==
  /\ Returned /\ variant = "GP" /\ Len(commits) > 0
  /\ \E rnd \in RandomDraws :
       result.openRank # OpenRank(variant, result.globalScore, rnd)

\* C18: the insight shown once the effect of a project change has run is
\* never the answer to a request made for another project: an answer that
\* arrives after the inputs have changed is discarded
C18_StaleDiscarded ==
  (pc = "done" /\ ~effectPending) =>
    \A p \in Projects : insightText = InsightOn(p) => p = selectedProject

\* what the code does: every answer that arrives is shown, whatever the
\* selected project is by then
C18_AnswerAlwaysShown ==
  [][(Len(inflight') < Len(inflight) /\ insightText' # insightText)
       => /\ insightText' \in {InsightOn(p) : p \in Projects} \cup {NoAnswer, Failed}
          /\ \A p \in Projects :
               insightText' = InsightOn(p) =>
                 \E i \in 1..Len(inflight) : inflight[i].project = p]_vars

\* the answer to a request made for the project selected before is shown
C18_Witness ==
  /\ pc = "done" /\ ~effectPending
  /\ \E p \in Projects : insightText = InsightOn(p) /\ p # selectedProject

\* place of the first commit from the country `name`
FirstSeen(cm, name) ==
  CHOOSE j \in 1..Len(cm) :
    /\ cm[j].location_iso3 = name
    /\ \A k \in 1..(j - 1) : cm[k].location_iso3 # name

\* C19: the country distribution is ordered descending by count, and
\* countries with equal counts in the order of their first commits
C19_CountryOrder ==
  Returned =>
    LET cd == result.geoData.countryData
    IN  \A i, j \in 1..Len(cd) :
          i < j =>
            \/ cd[i].value > cd[j].value
            \/ /\ cd[i].value = cd[j].value
               /\ FirstSeen(commits, cd[i].name) < FirstSeen(commits, cd[j].name)

\* a distribution with two countries of equal count, and a country that
\* the sort has moved in front of one encountered earlier
C19_Witness ==
  /\ Returned
  /\ LET cd == result.geoData.countryData
     IN  /\ \E i, j \in 1..Len(cd) : i < j /\ cd[i].value = cd[j].value
         /\ \E i, j \in 1..Len(cd) :
              /\ i < j
              /\ FirstSeen(commits, cd[i].name) > FirstSeen(commits, cd[j].name)

\* a commit that is not well-formed: timestamp absent or negative, or
\* contributor id null
Malformed(c) ==
  \/ c.timestamp_unix = MissingTimestamp
  \/ c.timestamp_unix < 0
  \/ c.contributor_id = NullId

HasMalformed(cm) == \E j \in 1..Len(cm) : Malformed(cm[j])

\* C20: a commit list with a malformed commit is rejected: no commit of it
\* is aggregated, no metrics object is returned for it, and no exception
\* leaves the hook
C20_Rejected ==
  HasMalformed(commits) =>
    /\ pc # "threw"
    /\ ~Returned
    /\ pc = "loop" => idx = 1

\* what the code does, which validates nothing: a commit without timestamp
\* makes the loop throw when it is reached; commits with a negative
\* timestamp or a null contributor id are counted like any other
C20_NotValidated ==
  /\ pc = "threw" => commits[idx].timestamp_unix = MissingTimestamp
  /\ pc = "loop" =>
       /\ \A j \in 1..(idx - 1) : commits[j].timestamp_unix # MissingTimestamp
       /\ SumSeq([p \in 1..24 |-> hourlyCounts[p - 1]]) = idx - 1
       /\ \A j \in 1..(idx - 1) :
            HasKey(contributorStats, commits[j].contributor_id,
                   LAMBDA u : ContributorKey(variant, u))
  /\ (Returned /\ Len(commits) > 0) =>
       /\ \A j \in 1..Len(commits) : commits[j].timestamp_unix # MissingTimestamp
       /\ result.totalCommits = Len(commits)
       /\ SumCommits(result.hriData) = Len(commits)
       /\ result.totalContributors = DistinctContributors(commits)

\* a commit with a negative timestamp and a null contributor id has been
\* counted, and the loop has then thrown at a commit without timestamp
C20_Witness ==
  /\ pc = "threw" /\ idx = 2
  /\ commits[1].timestamp_unix = NegativeTimestamp
  /\ commits[1].contributor_id = NullId
  /\ contributorStats # <<>>

\* C21: the computation (from its entry to its return) leaves the commit
\* list as it is, in length, order and every field, and changes nothing but
\* its own locals and the returned object
C21_InputUntouched ==
  [][(pc \in {"start", "loop"})
       => /\ commits' = commits
          /\ <<variant, regionFilter, effectPending, selectedProject>>'
               = <<variant, regionFilter, effectPending, selectedProject>>
          /\ Insight' = Insight
          /\ pc' = "done" /\ result' # NULL /\ variant # "GD"
               => result'.rawData.commits = commits]_vars

\* a returned computation in which an existing contributor entry has been
\* incremented
C21_Witness ==
  /\ Returned /\ variant \in {"P1", "P2"}
  /\ Len(commits) = 2
  /\ commits[1].contributor_id = commits[2].contributor_id
  /\ commits[1].location_iso3 # commits[2].location_iso3
  /\ result.rawData.commits = commits

SumCounts(cs) == SumSeq([j \in 1..Len(cs) |-> cs[j].count])

\* C22: the contributor entries have counts >= 1 that sum to the number of
\* commits processed, one entry per distinct contributor id; the returned
\* totalContributors is the number of distinct ids, and an unfiltered
\* ranking that holds all contributors sums to the number of commits
C22_ContributorCounts ==
  /\ pc = "loop" =>
       /\ SumCounts(contributorStats) = idx - 1
       /\ \A j \in 1..Len(contributorStats) : contributorStats[j].count >= 1
       /\ Len(contributorStats) = Cardinality(IdsOf(SubSeq(commits, 1, idx - 1)))
  /\ Returned =>
       /\ result.totalContributors = Cardinality(IdsOf(commits))
       /\ \A j \in 1..Len(Ranking(variant, result)) :
            Ranking(variant, result)[j].count >= 1
       /\ (~Truthy(regionFilter) /\ result.totalContributors <= TopK(variant)) =>
            /\ Len(Ranking(variant, result)) = result.totalContributors
            /\ SumCounts(Ranking(variant, result)) = Len(commits)

\* several contributors, one of them with several commits
C22_Witness ==
  /\ Returned /\ ~Truthy(regionFilter)
  /\ result.totalContributors \in 2..TopK(variant)
  /\ Len(commits) > result.totalContributors
  /\ SumCounts(Ranking(variant, result)) = Len(commits)

\* C23: in GD a call makes at most 3 attempts (numbered 0, 1, 2); it waits
\* only after a failed attempt that is not the last, and the next attempt
\* follows the wait; a call ends with the loading flag false, after a
\* success with the answer's text and no further attempt, and with the
\* failure text exactly when the attempt that failed was the third
C23_RetryLoop ==
  [][variant = "GD" =>
       /\ \A i \in 1..Len(inflight') :
            /\ inflight'[i].attempt \in 0..2
            /\ inflight'[i].phase = "wait" => inflight'[i].attempt < 2
       /\ Len(inflight) <= 1
       /\ (Len(inflight) = 1 /\ Len(inflight') = 1 /\ inflight' # inflight) =>
            \/ /\ inflight[1].phase = "fetch" /\ inflight'[1].phase = "wait"
               /\ inflight'[1].attempt = inflight[1].attempt
               /\ UNCHANGED <<insightText, insightLoading>>
            \/ /\ inflight[1].phase = "wait" /\ inflight'[1].phase = "fetch"
               /\ inflight'[1].attempt = inflight[1].attempt + 1
               /\ UNCHANGED <<insightText, insightLoading>>
       /\ (Len(inflight) = 1 /\ Len(inflight') = 0) =>
            /\ inflight[1].phase = "fetch"
            /\ insightLoading' = FALSE
            /\ \/ insightText' \in {InsightOn(p) : p \in Projects} \cup {NoAnswer}
               \/ insightText' = Failed /\ inflight[1].attempt = 2
       /\ insightText' = Failed => insightText = Failed \/ Len(inflight) = 1]_vars

\* GD shows the failure text after a call has ended
C23_Witness ==
  /\ variant = "GD" /\ apiKey
  /\ insightText = Failed /\ ~insightLoading /\ inflight = <<>>

\* C24: at most one insight request is in flight, and while one is in
\* flight the loading flag that disables the button is set
C24_AtMostOneInFlight ==
  /\ Len(inflight) <= 1
  /\ inflight # <<>> => insightLoading

\* what the copies do: GP and GD keep the flag set until the request ends,
\* so that there is at most one; in P1 and P2 the effect of a project or
\* range change clears the flag while the request is in flight, and another
\* request can be sent
C24_OneInFlightPerVariant ==
  /\ variant \in {"GP", "GD"} =>
       /\ Len(inflight) <= 1
       /\ inflight # <<>> <=> insightLoading
  /\ variant \in {"P1", "P2"} =>
       /\ insightLoading => inflight # <<>>
       /\ Len(inflight) <= MaxInflight

\* two requests in flight, made for different projects
C24_Witness ==
  /\ variant \in {"P1", "P2"}
  /\ Len(inflight) = 2
  /\ inflight[1].project # inflight[2].project
  /\ insightLoading

\* C25: a change of project or range makes the effect due; its run leaves
\* the region filter null, the insight text empty, the loading flag true
\* and exactly one timer pending (the earlier one is cancelled); the flag
\* is true as long as that timer is pending, and the firing of the timer
\* clears it
C25_ResetAndLoading ==
  [][/\ (pc = "done" /\ pc' = "generate") => effectPending'
     /\ (effectPending /\ ~effectPending') =>
          /\ regionFilter' = NullFilter
          /\ insightText' = ""
          /\ loading'
          /\ timers' = 1
     /\ timers' <= 1
     /\ timers' = 1 => loading'
     /\ (~effectPending' /\ timers' = 0) => ~loading'
     /\ timers' < timers => ~loading' /\ timers' = 0
     /\ selectedProject' # selectedProject => effectPending']_vars

\* a change has come while the timer of the previous run of the effect is
\* pending, with a filter set and a text shown: the effect is due
C25_Witness ==
  /\ pc = "done" /\ effectPending
  /\ selectedProject = "Project-B"
  /\ loading /\ timers = 1
  /\ Truthy(regionFilter) /\ insightText # ""

\* C26: a click on the sector of country X sets the region filter to X when
\* the filter is not X and clears it when it is X; a click on the synthetic
\* remainder sector leaves the filter as it is; the filter only ever changes
\* to null or to the name of a country sector of the chart shown, and is
\* always null or such a name while that chart is shown
SectorNames ==
  {result.geoData.pieData[j].name : j \in 1..Len(result.geoData.pieData)}

C26_PieClickToggles ==
  [][/\ (pc = "done" /\ ~effectPending /\ variant # "GD" /\ result # NULL) =>
          /\ \A x \in SectorNames \ {OtherName(variant)} :
                FilterAfterClick(variant, regionFilter, x) =
                  (IF regionFilter = x THEN NullFilter ELSE x)
          /\ OtherName(variant) \in SectorNames =>
                FilterAfterClick(variant, regionFilter, OtherName(variant)) =
                  regionFilter
          /\ regionFilter \in (SectorNames \ {OtherName(variant)}) \cup {NullFilter}
     /\ regionFilter' # regionFilter =>
          \/ regionFilter' = NullFilter
          \/ /\ pc = "done" /\ result # NULL
             /\ regionFilter' \in SectorNames \ {OtherName(variant)}]_vars

\* a filter set by a click on a chart that has the remainder sector
C26_Witness ==
  /\ pc = "done" /\ ~effectPending /\ result # NULL
  /\ variant \in {"GP", "P1", "P2"}
  /\ OtherName(variant) \in SectorNames
  /\ Truthy(regionFilter)
  /\ regionFilter \in SectorNames

\* no two tasks of the list have the same id
UniqueIds(ts) == \A j, k \in 1..Len(ts) : j # k => ts[j].id # ts[k].id

\* C27: after any sequence of add and delete operations no two tasks of the
\* list have the same id
C27_UniqueIds == UniqueIds(tasks)

\* C27 (what holds): a new task gets the id length + 1, and the ids stay
\* unique as long as they are 1..length
C27_NewIdIsLengthPlusOne ==
  [][Len(tasks') = Len(tasks) + 1 =>
       /\ tasks'[Len(tasks')].id = Len(tasks) + 1
       /\ TaskIds(tasks) = 1..Len(tasks) => UniqueIds(tasks')]_vars

\* task 1 deleted and a task added: both tasks have id 2
C27_Witness ==
  /\ Len(tasks) = 2
  /\ tasks[1].id = 2 /\ tasks[1].name = "Task 2"
  /\ tasks[2].id = 2 /\ tasks[2].name = "Fix"

\* C28: with no search text and no priority filter the displayed list
\* equals the task list after every add, update and delete
C28_ShownEqualsTasks ==
  (searchText = "" /\ selectedPriority = "") => filteredTasks = tasks

\* C28 (what holds): the Vue managers show the task list after every add
\* and update, task.jsx after every delete
C28_ShownPerManager ==
  [][/\ (impl # "jsx" /\ tasks' # tasks /\ Len(tasks') >= Len(tasks)) =>
          filteredTasks' = tasks'
     /\ (impl = "jsx" /\ Len(tasks') < Len(tasks)) => filteredTasks' = tasks']_vars

\* task.jsx after an add without any search: the new task is not shown
C28_Witness ==
  /\ impl = "jsx"
  /\ searchText = "" /\ selectedPriority = ""
  /\ Len(tasks) = 3
  /\ filteredTasks = InitialTasks("jsx")

\* a Vue manager after a delete without any search: the task is still shown
C28_WitnessVue ==
  /\ impl = "vue"
  /\ searchText = "" /\ selectedPriority = ""
  /\ tasks = SubSeq(InitialTasks("vue"), 2, 2)
  /\ filteredTasks = InitialTasks("vue")

\* the price p with every discount of the sequence applied, and with every
\* one but the last
RECURSIVE DiscountedByAll(_, _)
DiscountedByAll(p, percentages) ==
  IF percentages = <<>> THEN Whole(p)
  ELSE Discounted(DiscountedByAll(p, SubSeq(percentages, 1, Len(percentages) - 1)),
                  percentages[Len(percentages)])

AllButLast(p, percentages) ==
  DiscountedByAll(p, SubSeq(percentages, 1, Len(percentages) - 1))

\* C29: after one or more applyDiscount calls with percentages in [0, 100)
\* and one resetDiscount, the price is the original price and the stored
\* discount is 0
C29_ResetRestoresPrice ==
  (productPc = "reset" /\ applied # <<>>) =>
    /\ price = Whole(originalPrice)
    /\ discount = 0

\* C29 (what holds): resetDiscount undoes the last discount only; the
\* stored discount is 0, and the price is the original one when one
\* discount was applied
C29_ResetUndoesLast ==
  (productPc = "reset" /\ applied # <<>>) =>
    /\ discount = 0
    /\ price = AllButLast(originalPrice, applied)
    /\ Len(applied) = 1 => price = Whole(originalPrice)

\* 1200 discounted by 10 % and by 20 %, then reset: 1080
C29_Witness ==
  /\ productPc = "reset"
  /\ originalPrice = 1200
  /\ applied = <<10, 20>>
  /\ price = Whole(1080)
  /\ discount = 0

\* C30: isLoading is true exactly while a load is in flight and false after
\* success and after failure; errorMessage is empty from the start of a load
\* and non-empty afterwards exactly if that load failed; data-loaded is
\* emitted on success only; no load starts while isLoading is true
C30_LoadingFlag ==
  [][/\ isLoading' <=> loadPc' # "idle"
     /\ isLoading' <=> lastLoad' = "pending"
     /\ started' # started =>
          /\ ~isLoading /\ loadPc = "idle"
          /\ isLoading' /\ errorMessage' = ""
     /\ isLoading' => errorMessage' = ""
     /\ (~isLoading' /\ lastLoad' # "none") =>
          (errorMessage' # "" <=> lastLoad' = "failed")
     /\ emitted' # emitted =>
          /\ Len(emitted') = Len(emitted) + 1
          /\ isLoading /\ lastLoad' = "ok" /\ errorMessage' = ""
     /\ (lastLoad = "pending" /\ lastLoad' = "failed") => emitted' = emitted
     /\ Len(emitted') <= started']_vars

\* a load that succeeded after one that failed: the message is cleared again
C30_Witness ==
  /\ started = 2
  /\ ~isLoading /\ loadPc = "idle"
  /\ lastLoad = "ok"
  /\ errorMessage = ""
  /\ Len(emitted) = 1

\* a failed load
C30_WitnessFailed ==
  /\ ~isLoading /\ loadPc = "idle"
  /\ lastLoad = "failed"
  /\ errorMessage = ErrorLoading
  /\ emitted = <<>>

====
